---- MODULE Spec2Model ----
(***************************************************************************)
(* Model of rl_baselines/train.py: the command-line driver main(), the     *)
(* log-folder configuration configureEnvAndLogFolder() and the periodic    *)
(* training callback().  Strings that the code concatenates into paths are *)
(* modelled as tuples of path components, so "" is << >> and               *)
(* LOG_DIR + "args.json" is Append(LOG_DIR, "args.json").                  *)
(***************************************************************************)
EXTENDS Integers, Sequences, FiniteSets, TLC

VARIABLES
    pc,                \* position of main(): start, parsed, resolved, configured,
                       \* args_saved, env_saved, seeded, training, done, raised
    args,              \* the argparse namespace (algo, srl_model, log_dir, no_vis)
    models,            \* the table loaded from config/srl_models.yaml
    algo,              \* main's local: the selected algorithm module
    ALGO, LOG_INTERVAL, SAVE_INTERVAL, LOG_DIR, PLOT_TITLE,
    viz, n_steps, params_saved, best_mean_reward,
    kuka_env,          \* attributes of algo.kuka_env assigned by this file
    dirs,              \* directories created by os.makedirs
    files,             \* paths opened for writing so far
    seeded,            \* set_global_seeds was called
    saved_model,       \* the checkpoint last written by a save() call
    inv,               \* what the most recent callback invocation did
    calls,             \* number of callback invocations so far
    callback_ret,      \* value returned by the most recent invocation
    last_assign,       \* invocation that last assigned best_mean_reward
    max_eval,          \* max of -10000 and the rewards evaluated with ok = True
    locals_writes,     \* number of times rl_locals.json was written
    visdom_clients     \* number of Visdom clients constructed

vars == <<pc, args, models, algo, ALGO, LOG_INTERVAL, SAVE_INTERVAL, LOG_DIR,
          PLOT_TITLE, viz, n_steps, params_saved, best_mean_reward, kuka_env,
          dirs, files, seeded, saved_model, inv, calls, callback_ret,
          last_assign, max_eval, locals_writes, visdom_clients>>

cfgvars == <<args, models, algo, ALGO, LOG_INTERVAL, SAVE_INTERVAL, LOG_DIR,
             PLOT_TITLE, kuka_env, dirs>>

cbvars == <<n_steps, params_saved, best_mean_reward, saved_model, inv, calls,
            callback_ret, last_assign, max_eval, locals_writes, visdom_clients>>

----------------------------------------------------------------------------
(* Bounds of the model *)

\* the training loop is followed for this many save intervals
MaxSavePoints == 2

\* mean rewards computeMeanReward may return; they straddle the initial best
Rewards == {-10001, -10000, -3, 7}

\* values of --log-dir
LogDirArgs == {<< >>, <<"/tmp/gym/">>}

\* contents of config/srl_models.yaml (keys other than log_folder)
ModelTables == {{"ground_truth", "srl_priors", "autoencoder"}, {"supervised"}}

\* datetime.now().strftime(...)
Timestamps == {"01-01-18_00h00_00"}

----------------------------------------------------------------------------
(* Program constants *)

InitLogInterval == 100
InitSaveInterval == 500
InitBestMeanReward == -10000
NotEnoughEpisodeReward == -10000
AcerLogInterval == 1
AcerSaveInterval == 20
Ppo2LogInterval == 10

AlgoChoices == {"acer", "deepq", "a2c", "ppo2", "random_search", "random_agent"}
SrlChoices == {"", "autoencoder", "ground_truth", "srl_priors", "supervised"}

NoArgs == [algo |-> "", srl_model |-> "", log_dir |-> << >>, no_vis |-> FALSE]
NoModel == [path |-> << >>, reward |-> InitBestMeanReward, call |-> 0]
NoInvocation == [save_point |-> FALSE, ok |-> FALSE,
                 mean_reward |-> NotEnoughEpisodeReward, saved |-> "",
                 plotted |-> FALSE, wrote_locals |-> FALSE, new_visdom |-> FALSE,
                 log_point |-> FALSE, n_on_entry |-> 0,
                 best_on_entry |-> InitBestMeanReward]

Init ==
    /\ pc = "start"
    /\ args = NoArgs
    /\ models \in ModelTables
    /\ algo = "None"
    /\ ALGO = ""
    /\ LOG_INTERVAL = InitLogInterval
    /\ SAVE_INTERVAL = InitSaveInterval
    /\ LOG_DIR = << >>
    /\ PLOT_TITLE = "Raw Pixels"
    /\ viz = "None"
    /\ n_steps = 0
    /\ params_saved = FALSE
    /\ best_mean_reward = InitBestMeanReward
    /\ kuka_env = {}
    /\ dirs = {}
    /\ files = {}
    /\ seeded = FALSE
    /\ saved_model = NoModel
    /\ inv = NoInvocation
    /\ calls = 0
    /\ callback_ret = "None"
    /\ last_assign = 0
    /\ max_eval = InitBestMeanReward
    /\ locals_writes = 0
    /\ visdom_clients = 0

----------------------------------------------------------------------------
(* main, lines 139-166: parse the command line, set ALGO and viz *)

ParseArgs ==
    /\ pc = "start"
    /\ \E a \in AlgoChoices, s \in SrlChoices, d \in LogDirArgs, nv \in BOOLEAN :
          /\ args' = [algo |-> a, srl_model |-> s, log_dir |-> d, no_vis |-> nv]
          /\ ALGO' = a
          /\ viz' = IF nv THEN "False" ELSE viz
    /\ pc' = "parsed"
    /\ UNCHANGED <<models, algo, LOG_INTERVAL, SAVE_INTERVAL, LOG_DIR, PLOT_TITLE,
                   kuka_env, dirs, files, seeded>>
    /\ UNCHANGED cbvars

(* main, lines 168-182: the intervals each algorithm runs with *)

\* variant: the ppo2 branch leaves LOG_INTERVAL alone
LogIntervalFor_NoPpo2(a, cur) ==
    IF a = "acer" THEN AcerLogInterval ELSE cur

LogIntervalFor(a, cur) ==
    IF a = "acer" THEN AcerLogInterval
    ELSE IF a = "ppo2" THEN Ppo2LogInterval
    ELSE cur

SaveIntervalFor(a, cur) ==
    IF a = "acer" THEN AcerSaveInterval ELSE cur

(* main, lines 168-186: resolve the module, set ACTION_REPEAT *)

ResolveAlgo ==
    /\ pc = "parsed"
    /\ algo' = args.algo
    /\ LOG_INTERVAL' = LogIntervalFor(args.algo, LOG_INTERVAL)
    /\ SAVE_INTERVAL' = SaveIntervalFor(args.algo, SAVE_INTERVAL)
    /\ kuka_env' = kuka_env \cup {"ACTION_REPEAT"}
    /\ pc' = "resolved"
    /\ UNCHANGED <<args, models, ALGO, LOG_DIR, PLOT_TITLE, viz, dirs, files, seeded>>
    /\ UNCHANGED cbvars

----------------------------------------------------------------------------
(* configureEnvAndLogFolder, lines 63-78: the observation mode *)

\* variant: the models table is consulted before the ground_truth test
SrlMode_TableFirst(srl, table) ==
    IF srl # ""
    THEN IF srl \in table THEN "srl"
         ELSE IF srl = "ground_truth" THEN "ground_truth"
         ELSE "error"
    ELSE "raw_pixels"

SrlMode(srl, table) ==
    IF srl # ""
    THEN IF srl = "ground_truth" THEN "ground_truth"
         ELSE IF srl \in table THEN "srl"
         ELSE "error"
    ELSE "raw_pixels"

SrlFlags(mode) ==
    IF mode = "ground_truth" THEN {"USE_GROUND_TRUTH"}
    ELSE IF mode = "srl" THEN {"USE_SRL", "SRL_MODEL_PATH"}
    ELSE {}

SrlTitle(srl, mode, cur) ==
    IF mode = "ground_truth" THEN "Ground Truth"
    ELSE IF srl # "" THEN srl
    ELSE cur

SrlFolder(srl) == IF srl # "" THEN srl ELSE "raw_pixels"

(* main, lines 188-190, with configureEnvAndLogFolder, lines 55-86 *)

ConfigureEnvAndLogFolder ==
    /\ pc = "resolved"
    /\ \E ts \in Timestamps :
        LET mode == SrlMode(args.srl_model, models)
            dir1 == Append(args.log_dir, SrlFolder(args.srl_model))
            dir2 == dir1 \o <<ALGO, ts>>
        IN  /\ PLOT_TITLE' = SrlTitle(args.srl_model, mode, PLOT_TITLE)
            /\ kuka_env' = kuka_env \cup SrlFlags(mode)
            /\ IF mode = "error"
               THEN /\ args' = [args EXCEPT !.log_dir = dir1]
                    /\ pc' = "raised"
                    /\ UNCHANGED <<LOG_DIR, dirs>>
               ELSE /\ args' = [args EXCEPT !.log_dir = dir2]
                    /\ LOG_DIR' = dir2
                    /\ dirs' = dirs \cup {dir2}
                    /\ pc' = "configured"
    /\ UNCHANGED <<models, algo, ALGO, LOG_INTERVAL, SAVE_INTERVAL, viz, files, seeded>>
    /\ UNCHANGED cbvars

\* variant: args.json is written before the log folder is configured
SaveArgs_BeforeConfigure ==
    /\ pc = "resolved"
    /\ files' = files \cup {Append(LOG_DIR, "args.json")}
    /\ UNCHANGED <<pc, viz, seeded>>
    /\ UNCHANGED cfgvars
    /\ UNCHANGED cbvars

(* main, lines 191-194: write args.json *)

SaveArgs ==
    /\ pc = "configured"
    /\ files' = files \cup {Append(LOG_DIR, "args.json")}
    /\ pc' = "args_saved"
    /\ UNCHANGED <<viz, seeded>>
    /\ UNCHANGED cfgvars
    /\ UNCHANGED cbvars

(* main, line 202, with saveEnvParams, lines 46-52 *)

SaveEnvParams ==
    /\ pc = "args_saved"
    /\ files' = files \cup {Append(LOG_DIR, "kuka_env_globals.json")}
    /\ pc' = "env_saved"
    /\ UNCHANGED <<viz, seeded>>
    /\ UNCHANGED cfgvars
    /\ UNCHANGED cbvars

(* main, line 203 *)

SetGlobalSeeds ==
    /\ pc = "env_saved"
    /\ seeded' = TRUE
    /\ pc' = "seeded"
    /\ UNCHANGED <<viz, files>>
    /\ UNCHANGED cfgvars
    /\ UNCHANGED cbvars

(* main, line 204: the selected algorithm's main(args, callback) starts *)

AlgoMain ==
    /\ pc = "seeded"
    /\ pc' = "training"
    /\ UNCHANGED <<viz, files, seeded>>
    /\ UNCHANGED cfgvars
    /\ UNCHANGED cbvars

----------------------------------------------------------------------------
(* callback, lines 89-134 *)

\* lines 96-97
NewViz(v) == IF v = "None" THEN "Visdom" ELSE v

\* line 99
WritesLocals(saved) == ~saved

\* variant: params_saved is never set
ParamsSavedAfter_NeverSet(saved) == saved

\* line 104
ParamsSavedAfter(saved) == IF WritesLocals(saved) THEN TRUE ELSE saved

\* variant: the save test is made on n_steps instead of n_steps + 1
IsSavePoint_OffByOne(n, interval) == n % interval = 0

\* line 107
IsSavePoint(n, interval) == (n + 1) % interval = 0

\* line 109: the external computeMeanReward is called at save points only and
\* may return any (ok, mean_reward); elsewhere the locals keep their defaults
ComputeMeanReward(sp) ==
    IF sp THEN [ok : BOOLEAN, mean_reward : Rewards]
    ELSE {[ok |-> FALSE, mean_reward |-> NotEnoughEpisodeReward]}

\* variant: the else branch does not reset mean_reward
EvalMeanReward_NoReset(ok, r) == r

\* lines 110-114
EvalMeanReward(ok, r) == IF ok THEN r ELSE NotEnoughEpisodeReward

\* variant: the comparison is not strict
IsBetter_NotStrict(mean_reward, best) == mean_reward >= best

\* variant: the last evaluation always replaces the best
IsBetter_Always(mean_reward, best) == TRUE

\* line 117
IsBetter(mean_reward, best) == mean_reward > best

\* variant: the ppo2 branch is missing
SaveFile_NoPpo2(a) ==
    IF a = "deepq" THEN "deepq_model.pkl"
    ELSE IF a = "acer" THEN "acer_model.pkl"
    ELSE IF a = "a2c" THEN "a2c_model.pkl"
    ELSE ""

\* lines 119-126
SaveFile(a) ==
    IF a = "deepq" THEN "deepq_model.pkl"
    ELSE IF a = "acer" THEN "acer_model.pkl"
    ELSE IF a = "a2c" THEN "a2c_model.pkl"
    ELSE IF a = "ppo2" THEN "ppo2_model.pkl"
    ELSE ""

\* line 128, right operand
IsLogPoint(n, interval) == (n + 1) % interval = 0

\* variant: the test is "viz is not None" instead of the truth value of viz
ShouldPlot_NotNone(v, lp) == v # "None" /\ lp

\* line 128: a Visdom object is truthy, None and False are not
ShouldPlot(v, lp) == v = "Visdom" /\ lp

\* line 133
NextSteps(n) == n + 1

\* line 134
ReturnValue == "False"

Callback ==
    /\ pc = "training"
    /\ n_steps < MaxSavePoints * SAVE_INTERVAL
    /\ \E res \in ComputeMeanReward(IsSavePoint(n_steps, SAVE_INTERVAL)) :
        LET v1 == NewViz(viz)
            wl == WritesLocals(params_saved)
            sp == IsSavePoint(n_steps, SAVE_INTERVAL)
            ok == res.ok
            mean_reward == EvalMeanReward(ok, res.mean_reward)
            better == sp /\ IsBetter(mean_reward, best_mean_reward)
            file == IF better THEN SaveFile(ALGO) ELSE ""
            lp == IsLogPoint(n_steps, LOG_INTERVAL)
            plot == ShouldPlot(v1, lp)
        IN  /\ viz' = v1
            /\ visdom_clients' = IF v1 # viz THEN visdom_clients + 1 ELSE visdom_clients
            /\ params_saved' = ParamsSavedAfter(params_saved)
            /\ locals_writes' = IF wl THEN locals_writes + 1 ELSE locals_writes
            /\ best_mean_reward' = IF better THEN mean_reward ELSE best_mean_reward
            /\ last_assign' = IF better THEN calls + 1 ELSE last_assign
            /\ max_eval' = IF sp /\ res.ok /\ res.mean_reward > max_eval
                            THEN res.mean_reward ELSE max_eval
            /\ saved_model' = IF file # ""
                              THEN [path |-> Append(LOG_DIR, file),
                                    reward |-> mean_reward, call |-> calls + 1]
                              ELSE saved_model
            /\ files' = files
                          \cup (IF wl THEN {Append(LOG_DIR, "rl_locals.json")} ELSE {})
                          \cup (IF file # "" THEN {Append(LOG_DIR, file)} ELSE {})
            /\ inv' = [save_point |-> sp, ok |-> ok, mean_reward |-> mean_reward,
                       saved |-> file, plotted |-> plot, wrote_locals |-> wl,
                       new_visdom |-> (v1 # viz),
                       log_point |-> lp, n_on_entry |-> n_steps,
                       best_on_entry |-> best_mean_reward]
    /\ n_steps' = NextSteps(n_steps)
    /\ calls' = calls + 1
    /\ callback_ret' = ReturnValue
    /\ UNCHANGED <<pc, seeded>>
    /\ UNCHANGED cfgvars

(* main, line 204: the algorithm's main returns *)

AlgoMainReturn ==
    /\ pc = "training"
    /\ pc' = "done"
    /\ UNCHANGED <<viz, files, seeded>>
    /\ UNCHANGED cfgvars
    /\ UNCHANGED cbvars

Next ==
    \/ ParseArgs
    \/ ResolveAlgo
    \/ ConfigureEnvAndLogFolder
    \/ SaveArgs
    \/ SaveEnvParams
    \/ SetGlobalSeeds
    \/ AlgoMain
    \/ Callback
    \/ AlgoMainReturn

Spec == Init /\ [][Next]_vars

----------------------------------------------------------------------------
(* Properties *)

SaveAlgos == {"deepq", "acer", "a2c", "ppo2"}

\* the most recent invocation wrote a checkpoint
SavedNow == calls > 0 /\ saved_model.call = calls

\* the most recent invocation was entered at a save point / at a plot point
EnteredAtSavePoint == calls > 0 /\ (inv.n_on_entry + 1) % SAVE_INTERVAL = 0
EnteredAtLogPoint == calls > 0 /\ (inv.n_on_entry + 1) % LOG_INTERVAL = 0

FileName(path) == path[Len(path)]
Folder(path) == SubSeq(path, 1, Len(path) - 1)
Written(name) == \E f \in files : FileName(f) = name

\* C1: a checkpoint is saved inside an invocation only if the invocation was
\* entered with (n_steps + 1) % SAVE_INTERVAL = 0 and the mean reward it
\* evaluated is strictly greater than best_mean_reward as it was on entry.
C1_SaveOnlyWhenImproved ==
    SavedNow => /\ EnteredAtSavePoint
                /\ inv.mean_reward > inv.best_on_entry

C1_Witness ==
    SavedNow /\ inv.best_on_entry = -3 /\ inv.mean_reward = 7

\* C2 as stated: for every selectable algorithm, a save-point invocation that
\* finds a mean reward strictly greater than the running best saves a
\* checkpoint, so every update of best_mean_reward comes with a save.
C2_Original ==
    /\ (EnteredAtSavePoint /\ inv.ok /\ inv.mean_reward > inv.best_on_entry)
          => SavedNow
    /\ last_assign = saved_model.call

\* C2 amended: the same for the algorithms deepq, acer, a2c and ppo2, the
\* checkpoint going to <algo>_model.pkl under LOG_DIR; for random_agent and
\* random_search best_mean_reward is updated and nothing is saved.
C2_SaveOnImprovement ==
    /\ ALGO \in SaveAlgos =>
         /\ (EnteredAtSavePoint /\ inv.ok /\ inv.mean_reward > inv.best_on_entry)
               => /\ SavedNow
                  /\ Folder(saved_model.path) = LOG_DIR
                  /\ FileName(saved_model.path) \in
                        {"deepq_model.pkl", "acer_model.pkl",
                         "a2c_model.pkl", "ppo2_model.pkl"}
                  /\ saved_model.path \in files
         /\ last_assign = saved_model.call
    /\ (calls > 0 /\ ALGO \notin SaveAlgos) =>
         /\ saved_model = NoModel
         /\ (EnteredAtSavePoint /\ inv.ok /\ inv.mean_reward > inv.best_on_entry)
               => best_mean_reward = inv.mean_reward

C2_Witness ==
    ALGO = "ppo2" /\ SavedNow /\ inv.ok /\ inv.mean_reward > inv.best_on_entry

\* C3: a save-point invocation whose evaluation returns ok = False saves no
\* checkpoint and leaves best_mean_reward as it was on entry, whatever came
\* before; every save-point invocation attempts the evaluation again.
C3_NoSaveWhenNotOk ==
    /\ (EnteredAtSavePoint /\ ~inv.ok) =>
          /\ ~SavedNow
          /\ best_mean_reward = inv.best_on_entry
          /\ last_assign # calls
    /\ calls > 0 => (inv.save_point <=> EnteredAtSavePoint)

C3_Witness ==
    /\ EnteredAtSavePoint /\ ~inv.ok
    /\ saved_model.call > 0 /\ best_mean_reward = 7

\* C4: best_mean_reward never decreases, is never below -10000, equals the
\* maximum of -10000 and the mean rewards evaluated with ok = True at save
\* points so far, and is left alone by invocations that are not save points.
C4_BestIsRunningMax ==
    /\ best_mean_reward >= -10000
    /\ best_mean_reward = max_eval
    /\ calls > 0 => best_mean_reward >= inv.best_on_entry
    /\ (calls > 0 /\ ~EnteredAtSavePoint) => best_mean_reward = inv.best_on_entry

C4_Witness ==
    /\ EnteredAtSavePoint /\ inv.ok /\ inv.mean_reward = -3
    /\ best_mean_reward = 7

\* C5: main's steps happen in order: algorithm resolved and log directory
\* created (LOG_DIR set) before args.json, args.json before
\* kuka_env_globals.json, that before the seed, the algorithm's main last; so
\* callback never runs with LOG_DIR empty and every file is written under the
\* one log directory that holds args.json.
C5_MainOrder ==
    /\ Written("args.json") =>
          algo # "None" /\ algo = ALGO /\ LOG_DIR # << >> /\ LOG_DIR \in dirs
    /\ Written("kuka_env_globals.json") => Written("args.json")
    /\ seeded => Written("kuka_env_globals.json")
    /\ pc \in {"training", "done"} => seeded
    /\ calls > 0 => pc \in {"training", "done"} /\ LOG_DIR # << >>
    /\ \A f \in files : Folder(f) = LOG_DIR /\ Folder(f) \in dirs

C5_Witness ==
    /\ calls > 0
    /\ Written("args.json") /\ Written("rl_locals.json") /\ Written("a2c_model.pkl")

\* C6: configureEnvAndLogFolder selects one observation mode from srl_model:
\* "" sets neither flag and logs under raw_pixels; "ground_truth" sets only
\* USE_GROUND_TRUTH even with an entry in the models table; another name with
\* an entry sets only USE_SRL and SRL_MODEL_PATH; any other name raises, and
\* then no directory is created, LOG_DIR is unchanged and no flag is set.
SrlAttributes == {"USE_GROUND_TRUTH", "USE_SRL", "SRL_MODEL_PATH"}

C6_ObservationMode ==
    pc \notin {"start", "parsed", "resolved"} =>
        LET s == args.srl_model
            flags == kuka_env \cap SrlAttributes
        IN  /\ s = "" =>
                 /\ pc # "raised" /\ flags = {}
                 /\ Len(LOG_DIR) >= 3
                 /\ SubSeq(LOG_DIR, Len(LOG_DIR) - 2, Len(LOG_DIR) - 1)
                       = <<"raw_pixels", ALGO>>
                 /\ dirs = {LOG_DIR}
            /\ s = "ground_truth" =>
                 /\ pc # "raised" /\ flags = {"USE_GROUND_TRUTH"}
                 /\ dirs = {LOG_DIR}
            /\ (s \notin {"", "ground_truth"} /\ s \in models) =>
                 /\ pc # "raised" /\ flags = {"USE_SRL", "SRL_MODEL_PATH"}
                 /\ dirs = {LOG_DIR}
            /\ (s \notin {"", "ground_truth"} /\ s \notin models) =>
                 /\ pc = "raised" /\ flags = {}
                 /\ dirs = {} /\ LOG_DIR = << >> /\ files = {}

C6_Witness ==
    pc = "raised" /\ args.srl_model = "supervised" /\ "ground_truth" \in models

\* C7: an invocation refreshes the plots iff visualization is enabled and
\* (n_steps + 1) % LOG_INTERVAL = 0 on entry; with --no-vis no invocation
\* creates a Visdom client or plots, and evaluation and saving are decided by
\* the save point, the reward and the algorithm alone.
C7_PlotIffVizAndLogPoint ==
    /\ calls > 0 => (inv.plotted <=> (~args.no_vis /\ EnteredAtLogPoint))
    /\ args.no_vis => /\ visdom_clients = 0
                      /\ viz = "False"
                      /\ ~inv.plotted /\ ~inv.new_visdom
    /\ (calls > 0 /\ ~args.no_vis) => viz = "Visdom" /\ visdom_clients = 1
    /\ calls > 0 => (inv.save_point <=> EnteredAtSavePoint)
    /\ SavedNow <=> /\ EnteredAtSavePoint
                    /\ inv.ok /\ inv.mean_reward > inv.best_on_entry
                    /\ ALGO \in SaveAlgos

C7_Witness ==
    args.no_vis /\ EnteredAtLogPoint /\ SavedNow /\ ~inv.plotted

\* C8: every invocation increments n_steps by one and returns False, so the
\* k-th invocation is a save point iff SAVE_INTERVAL divides k and a plot
\* point iff LOG_INTERVAL divides k; acer runs with LOG_INTERVAL = 1 and
\* SAVE_INTERVAL = 20, ppo2 with 10 and 500, every other algorithm with 100
\* and 500, fixed for the whole run.
C8_LogIntervalOf(a) == IF a = "acer" THEN 1 ELSE IF a = "ppo2" THEN 10 ELSE 100
C8_SaveIntervalOf(a) == IF a = "acer" THEN 20 ELSE 500

C8_StepCadence ==
    /\ n_steps = calls
    /\ calls > 0 =>
          /\ n_steps = inv.n_on_entry + 1
          /\ callback_ret = "False"
          /\ inv.save_point <=> (calls % C8_SaveIntervalOf(ALGO) = 0)
          /\ inv.log_point <=> (calls % C8_LogIntervalOf(ALGO) = 0)
    /\ pc \notin {"start", "parsed"} =>
          /\ LOG_INTERVAL = C8_LogIntervalOf(ALGO)
          /\ SAVE_INTERVAL = C8_SaveIntervalOf(ALGO)

C8_Witness ==
    ALGO = "ppo2" /\ calls = 500 /\ inv.save_point /\ inv.log_point

\* C9: for deepq, acer, a2c and ppo2, either no checkpoint was saved and
\* best_mean_reward is still -10000, or the last checkpoint was written by the
\* invocation that last assigned best_mean_reward and holds that reward; a
\* checkpoint is never replaced by one with an equal or lower mean reward.
C9_CheckpointIsBest ==
    ALGO \in SaveAlgos =>
        /\ saved_model.call = last_assign
        /\ saved_model.call = 0 =>
              saved_model = NoModel /\ best_mean_reward = -10000
        /\ saved_model.call > 0 => saved_model.reward = best_mean_reward
        /\ SavedNow => saved_model.reward > inv.best_on_entry

C9_Witness ==
    /\ ALGO \in SaveAlgos
    /\ saved_model.call > 0 /\ saved_model.call < calls
    /\ EnteredAtSavePoint /\ inv.ok /\ inv.mean_reward = saved_model.reward

\* C10: rl_locals.json is written once per run, by the first invocation:
\* params_saved is False before it, True after it and stays True, and no later
\* invocation writes the file again.
C10_LocalsWrittenOnce ==
    /\ params_saved <=> calls > 0
    /\ locals_writes = IF calls > 0 THEN 1 ELSE 0
    /\ calls > 0 => (inv.wrote_locals <=> calls = 1)
    /\ Written("rl_locals.json") <=> calls > 0

C10_Witness ==
    calls > 1 /\ locals_writes = 1 /\ params_saved /\ ~inv.wrote_locals

====
